---------------------------- MODULE Spec2Model ----------------------------
(***************************************************************************)
(* Model of the BoundsCheck LLVM function pass                             *)
(* (src/pass/BoundsCheck/BoundsCheck.cpp).                                 *)
(*                                                                         *)
(* The pass object keeps one field across invocations (the declaration of  *)
(* "__assert").  runOnFunction is modelled in three steps: its prologue    *)
(* (declaration + collection of the GEP worklist), one step per worklist   *)
(* entry, and its return.  report_fatal_error never returns: the aborted   *)
(* state has no successor.                                                 *)
(*                                                                         *)
(* 64-bit unsigned quantities of the IR (array element counts, the         *)
(* zero-extended value of a constant index) are kept as four 16-bit limbs, *)
(* most significant first, so that their conversion to the pass's `int`    *)
(* variables is computed at its real width.                                *)
(***************************************************************************)
EXTENDS Integers, Sequences, FiniteSets

\* ------------------------------------------------------------------ bounds
\* Largest "small" element count / index value drawn as an input.
MaxSmall == 2
\* Deepest nesting of array types drawn as an input.
MaxDepth == 2
\* Largest number of instructions of a function of UnitFunctions.
MaxInstrs == 3
\* Cap on the number of "__assert" declarations created in one module.
MaxDecls == 2

\* ------------------------------------------------------- 64-bit quantities
LimbBase == 2^16
HalfLimb == 2^15
TopLimb == LimbBase - 1

U64(a, b, c, d) == <<a, b, c, d>>
Small(n) == U64(0, 0, 0, n)

\* a < b on the 64-bit unsigned values.
RECURSIVE LimbsLess(_, _, _)
LimbsLess(a, b, k) ==
  IF k > 4 THEN FALSE
  ELSE IF a[k] # b[k] THEN a[k] < b[k]
  ELSE LimbsLess(a, b, k + 1)
U64Less(a, b) == LimbsLess(a, b, 1)
U64Geq(a, b) == ~U64Less(a, b)

\* uint64_t -> int (lines 68 and 78 assign a uint64_t to an `auto x = -1`
\* variable, i.e. an int): the low 32 bits, read as two's complement.
TruncInt(v) ==
  IF v[3] >= HalfLimb THEN (v[3] - LimbBase) * LimbBase + v[4]
  ELSE v[3] * LimbBase + v[4]

\* A non-negative int as a 64-bit quantity (used to compare what the pass
\* holds or prints with the IR's value).
FromInt(n) == U64(0, 0, n \div LimbBase, n % LimbBase)

SmallVals == {Small(n) : n \in 0..MaxSmall}
\* 2^31, 2^32 - 1, 2^32 + 1, 2^64 - 1
BigVals == {U64(0, 0, HalfLimb, 0), U64(0, 0, TopLimb, TopLimb),
            U64(0, 1, 0, 1), U64(TopLimb, TopLimb, TopLimb, TopLimb)}
U64Vals == SmallVals \cup BigVals

\* ------------------------------------------------------------------- types
IntTy == [kind |-> "int"]
StructTy == [kind |-> "struct"]
ArrayTy(n, e) == [kind |-> "array", n |-> n, elem |-> e]
PointerTy(t) == [kind |-> "ptr", elem |-> t]
\* A vector of pointers: a legal GEP base that is not a PointerType.
VecPtrTy == [kind |-> "vecptr", elem |-> IntTy]

\* Number of further indices a pointee type admits after the first one.
RECURSIVE Depth(_)
Depth(t) ==
  IF t.kind = "array" THEN 1 + Depth(t.elem)
  ELSE IF t.kind = "struct" THEN 1 ELSE 0

\* ------------------------------------------------------------ instructions
ConstIdx(v) == [const |-> TRUE, val |-> v]
VarIdx == [const |-> FALSE]
GEP(t, ix) == [op |-> "gep", ptrTy |-> t, idx |-> ix]
Other == [op |-> "other"]

isGEP(I) == I.op = "gep"
getNumIndices(G) == Len(G.idx)
\* Operand 0 is the pointer operand, operands 1..N are the indices.
getOperand(G, k) == IF k = 0 THEN [ptr |-> G.ptrTy] ELSE G.idx[k]
isConstantInt(V) == "const" \in DOMAIN V /\ V.const
hasAllConstantIndices(G) ==
  \A k \in 1..getNumIndices(G) : isConstantInt(getOperand(G, k))

\* dyn_cast<ConstantInt>(V): V itself when it is a ConstantInt, else null.
NullValue == [null |-> TRUE]
dyn_cast_ConstantInt(V) == IF isConstantInt(V) THEN V ELSE NullValue
getZExtValue(C) == C.val
getArrayNumElements(T) == T.n

\* ------------------------------------------------------------------ inputs
Modules == {"m1", "m2"}

RECURSIVE NestedArrays(_)
NestedArrays(d) ==
  IF d = 1 THEN {ArrayTy(n, IntTy) : n \in SmallVals}
  ELSE {ArrayTy(n, e) : n \in SmallVals, e \in NestedArrays(d - 1)}
ArrayTypes ==
  {ArrayTy(n, IntTy) : n \in U64Vals}
    \cup UNION {NestedArrays(d) : d \in 2..MaxDepth}
BaseTypes ==
  {PointerTy(IntTy), PointerTy(StructTy), VecPtrTy}
    \cup {PointerTy(a) : a \in ArrayTypes}

InnerIdx == {ConstIdx(Small(0)), ConstIdx(Small(MaxSmall)), VarIdx}
LastIdx == {ConstIdx(v) : v \in U64Vals} \cup {VarIdx}
IdxSeqsOfLen(n) ==
  IF n = 0 THEN {<<>>}
  ELSE {[k \in 1..n |-> IF k < n THEN p[k] ELSE l] :
          p \in [1..(n - 1) -> InnerIdx], l \in LastIdx}
\* A GEP carries at most one index per level of its pointee type, plus the
\* leading one that steps over the pointer; it may carry none at all.
IndexSeqs(t) == UNION {IdxSeqsOfLen(n) : n \in 0..(1 + Depth(t.elem))}
\* A function of one block holding the GEP g.
GEPFunction(g) == [parent |-> "m1", blocks |-> <<<<g>>>>]

\* int a[2]: a[1], a[2], a[i], and a GEP without indices on an int*.
GepOk == GEP(PointerTy(ArrayTy(Small(2), IntTy)),
             <<ConstIdx(Small(0)), ConstIdx(Small(1))>>)
GepViol == GEP(PointerTy(ArrayTy(Small(2), IntTy)),
               <<ConstIdx(Small(0)), ConstIdx(Small(2))>>)
GepVar == GEP(PointerTy(ArrayTy(Small(2), IntTy)),
              <<ConstIdx(Small(0)), VarIdx>>)
GepNoIdx == GEP(PointerTy(IntTy), <<>>)
Palette == {Other, GepOk, GepViol, GepVar, GepNoIdx}

\* The blocks of the instruction sequence s cut after the positions in c.
RECURSIVE SplitFrom(_, _, _, _)
SplitFrom(s, c, k, cur) ==
  LET cur2 == Append(cur, s[k]) IN
  IF k = Len(s) THEN <<cur2>>
  ELSE IF k \in c THEN <<cur2>> \o SplitFrom(s, c, k + 1, <<>>)
  ELSE SplitFrom(s, c, k + 1, cur2)
\* The function of module m whose instruction sequence s is cut into
\* (non-empty) blocks after the positions in c.
UnitFunction(m, s, c) == [parent |-> m, blocks |-> SplitFrom(s, c, 1, <<>>)]

\* ------------------------------------------------------------------- state
VARIABLES
  AssertFn,  \* the pass's field `Assert`: the declaration it holds, or nullptr
  decls,     \* per module, the number of "__assert" functions created in it
  pc,        \* "idle" | "analyze" | "aborted" | "crashed"
  F,         \* the function being analysed (what the reference F designates)
  entryF,    \* F as it was when runOnFunction was entered
  WorkList,  \* std::list<GetElementPtrInst *>: positions <<block, instr>> in F
  it,        \* position of the range-for over WorkList (1-based)
  changed,   \* the local `changed`
  ret,       \* <<v>> once runOnFunction has returned v, <<>> before
  diag,      \* the fatal diagnostics raised so far
  log        \* per analysed worklist entry of this run, what the pass held

vars == <<AssertFn, decls, pc, F, entryF, WorkList, it, changed, ret, diag, log>>

nullptr == [parent |-> "nullptr", ord |-> 0]
NoFunction == [parent |-> "none", blocks |-> <<>>]
InstrAt(Fn, p) == Fn.blocks[p[1]][p[2]]

Init ==
  /\ AssertFn = nullptr
  /\ decls = [m \in Modules |-> 0]
  /\ pc = "idle"
  /\ F = NoFunction
  /\ entryF = NoFunction
  /\ WorkList = <<>>
  /\ it = 0
  /\ changed = FALSE
  /\ ret = <<>>
  /\ diag = <<>>
  /\ log = <<>>

\* ------------------------------------------------------------ the prologue
\* Lines 44-45: whether a declaration is created for module Mod.
NeedsDeclaration(Mod) == AssertFn = nullptr \/ AssertFn.parent # Mod

\* getAssertFunction: Function::Create adds one more function to Mod.
getAssertFunction(Mod) == [parent |-> Mod, ord |-> decls[Mod] + 1]

\* Lines 50-56: every GEP of every block, block by block.
RECURSIVE CollectBlock(_, _, _)
CollectBlock(B, b, i) ==
  IF i > Len(B) THEN <<>>
  ELSE (IF isGEP(B[i]) THEN <<<<b, i>>>> ELSE <<>>) \o CollectBlock(B, b, i + 1)
RECURSIVE CollectFrom(_, _)
CollectFrom(blocks, b) ==
  IF b > Len(blocks) THEN <<>>
  ELSE CollectBlock(blocks[b], b, 1) \o CollectFrom(blocks, b + 1)
\* Collection with push_front in place of push_back.
RECURSIVE Reverse(_)
Reverse(q) == IF q = <<>> THEN <<>> ELSE Append(Reverse(Tail(q)), Head(q))
CollectPushFront(Fn) == Reverse(CollectFrom(Fn.blocks, 1))
Collect(Fn) == CollectFrom(Fn.blocks, 1)

Begin(Fn) ==
  /\ pc = "idle"
  /\ NeedsDeclaration(Fn.parent) => decls[Fn.parent] < MaxDecls
  /\ IF NeedsDeclaration(Fn.parent)
     THEN /\ AssertFn' = getAssertFunction(Fn.parent)
          /\ decls' = [decls EXCEPT ![Fn.parent] = @ + 1]
     ELSE UNCHANGED <<AssertFn, decls>>
  /\ F' = Fn
  /\ entryF' = Fn
  /\ WorkList' = Collect(Fn)
  /\ it' = 1
  /\ changed' = FALSE
  /\ log' = <<>>
  /\ pc' = "analyze"
  /\ UNCHANGED <<ret, diag>>

\* ------------------------------------------------- one worklist entry
\* Lines 62, 66-70.
arrayLengthOf(G) ==
  IF G.ptrTy.kind = "ptr" /\ G.ptrTy.elem.kind = "array"
  THEN TruncInt(getArrayNumElements(G.ptrTy.elem))
  ELSE -1

\* %d of an int.
RECURSIVE DecDigits(_)
DecDigits(n) == IF n < 10 THEN <<n>> ELSE Append(DecDigits(n \div 10), n % 10)
FormatD(n) == [neg |-> n < 0, digits |-> DecDigits(IF n < 0 THEN 0 - n ELSE n)]
stringFormat(format, dI, aL) ==
  [format |-> format, index |-> FormatD(dI), length |-> FormatD(aL)]

Entry(outcome, aL, dI) ==
  [at |-> WorkList[it], arrayLength |-> aL, desiredIndex |-> dI,
   outcome |-> outcome]

\* A diagnostic that is printed without ending the process.
report_error_and_return(msg, aL, dI) ==
  /\ diag' = Append(diag, [msg |-> msg, at |-> WorkList[it]])
  /\ log' = Append(log, Entry("violation", aL, dI))
  /\ it' = it + 1
  /\ UNCHANGED <<AssertFn, decls, pc, F, entryF, WorkList, changed, ret>>
\* report_fatal_error(msg, false): the process ends here.
report_fatal_error(msg, aL, dI) ==
  /\ diag' = Append(diag, [msg |-> msg, at |-> WorkList[it]])
  /\ log' = Append(log, Entry("violation", aL, dI))
  /\ pc' = "aborted"
  /\ UNCHANGED <<AssertFn, decls, F, entryF, WorkList, it, changed, ret>>

\* An analysis step that rewrites the instruction it has checked.
NextEntryRewriting(aL, dI) ==
  /\ it' = it + 1
  /\ log' = Append(log, Entry("pass", aL, dI))
  /\ F' = [F EXCEPT !.blocks[WorkList[it][1]][WorkList[it][2]] = Other]
  /\ changed' = TRUE
  /\ UNCHANGED <<AssertFn, decls, pc, entryF, WorkList, ret, diag>>
\* Lines 86-94: nothing to report, on to the next worklist entry.
NextEntry(aL, dI) ==
  /\ it' = it + 1
  /\ log' = Append(log, Entry("pass", aL, dI))
  /\ UNCHANGED <<AssertFn, decls, pc, F, entryF, WorkList, changed, ret, diag>>

\* Lines 83-91.
Decide(aL, dI) ==
  IF aL >= 0 /\ dI >= 0
  THEN IF dI >= aL
       THEN report_fatal_error(
              stringFormat("Wrong assignment to index %d (zero-based) while array has length %d! Aborting...",
                           dI, aL), aL, dI)
       ELSE NextEntry(aL, dI)
  ELSE NextEntry(aL, dI)

\* What an int read through a null ConstantInt* may hold: representatives of
\* a negative value, zero and a large positive value.
IntMax == (HalfLimb - 1) * LimbBase + TopLimb
GarbageInts == {-1, 0, IntMax}

\* Line 78 with constantInt == nullptr: undefined behaviour.  The build
\* either faults on the read or carries on with whatever it read.
NullDereference(aL) ==
  \/ /\ pc' = "crashed"
     /\ log' = Append(log, Entry("crash", aL, -1))
     /\ UNCHANGED <<AssertFn, decls, F, entryF, WorkList, it, changed, ret, diag>>
  \/ \E g \in GarbageInts : Decide(aL, g)

AnalyzeGEP ==
  /\ pc = "analyze"
  /\ it <= Len(WorkList)
  /\ LET G == InstrAt(F, WorkList[it])
         aL == arrayLengthOf(G)
     IN IF hasAllConstantIndices(G)
        THEN LET constantInt ==
                   dyn_cast_ConstantInt(getOperand(G, getNumIndices(G)))
             IN IF constantInt = NullValue
                THEN NullDereference(aL)
                ELSE Decide(aL, TruncInt(getZExtValue(constantInt)))
        ELSE Decide(aL, -1)

\* Line 96.
Return ==
  /\ pc = "analyze"
  /\ it > Len(WorkList)
  /\ ret' = <<changed>>
  /\ pc' = "idle"
  /\ F' = NoFunction
  /\ entryF' = NoFunction
  /\ WorkList' = <<>>
  /\ it' = 0
  /\ log' = <<>>
  /\ UNCHANGED <<AssertFn, decls, changed, diag>>

\* The pass manager hands the pass one function at a time: here any function
\* of up to MaxInstrs instructions of the palette, of either module.
RunOnUnitFunction ==
  /\ pc = "idle"
  /\ \E m \in Modules, n \in 1..MaxInstrs :
       \E s \in [1..n -> Palette], c \in SUBSET (1..(n - 1)) :
         Begin(UnitFunction(m, s, c))

\* Here any function holding one GEP of the whole GEP domain.
RunOnGEPFunction ==
  /\ pc = "idle"
  /\ \E t \in BaseTypes :
       \E ix \in IndexSeqs(t) : Begin(GEPFunction(GEP(t, ix)))

Next ==
  \/ RunOnUnitFunction
  \/ AnalyzeGEP
  \/ Return

NextGEP ==
  \/ RunOnGEPFunction
  \/ AnalyzeGEP
  \/ Return

Spec == Init /\ [][Next]_vars
SpecGEP == Init /\ [][NextGEP]_vars

\* ---------------------------------------------------------------- claims
\* What the claims read off an analysed worklist entry.
LogGEP(k) == InstrAt(F, log[k].at)
IsArrayBase(G) == G.ptrTy.kind = "ptr" /\ G.ptrTy.elem.kind = "array"
HasFinalIndex(G) == hasAllConstantIndices(G) /\ getNumIndices(G) >= 1
FinalIndex(G) == G.idx[Len(G.idx)].val
DeclaredLength(G) == G.ptrTy.elem.n
PosLess(p, q) == p[1] < q[1] \/ (p[1] = q[1] /\ p[2] < q[2])
Positions(Fn) ==
  UNION {{<<b, i>> : i \in 1..Len(Fn.blocks[b])} : b \in 1..Len(Fn.blocks)}
RECURSIVE ParseD(_, _)
ParseD(digits, k) ==
  IF k = 0 THEN 0 ELSE 10 * ParseD(digits, k - 1) + digits[k]
Printed(f) == FromInt(ParseD(f.digits, Len(f.digits)))
Flagged(e) ==
  e.arrayLength >= 0 /\ e.desiredIndex >= 0 /\ e.desiredIndex >= e.arrayLength

\* C1: for a GEP whose base is a pointer to an array of declared length L and
\* whose indices are all constants with final index i (any 64-bit values),
\* the fatal diagnostic is raised for it if and only if i >= L.
C1_SoundOnConstants ==
  \A k \in 1..Len(log) :
    LET G == LogGEP(k) IN
    (IsArrayBase(G) /\ HasFinalIndex(G))
      => ((log[k].outcome = "violation")
            <=> U64Geq(FinalIndex(G), DeclaredLength(G)))

\* C2: a GEP whose base is not a pointer to a fixed-size array, or which has
\* a non-constant index, never gets a diagnostic: it is passed silently and
\* the analysis goes on to the next worklist entry.
C2_Conservatism ==
  \A k \in 1..Len(log) :
    LET G == LogGEP(k) IN
    (~IsArrayBase(G) \/ ~hasAllConstantIndices(G)) => log[k].outcome = "pass"

\* Every constant index that indexes an array dimension of the pointee type
\* (the indices after the first, one per nesting level) is below that
\* dimension's length.
RECURSIVE DimsInBounds(_, _, _)
DimsInBounds(t, ix, k) ==
  IF k > Len(ix) THEN TRUE
  ELSE IF t.kind = "array"
       THEN /\ ix[k].const => U64Less(ix[k].val, t.n)
            /\ DimsInBounds(t.elem, ix, k + 1)
       ELSE TRUE
InBounds(G) == DimsInBounds(G.ptrTy.elem, G.idx, 2)

\* C3: no false positives: a GEP over nested fixed-size arrays whose final
\* index indexes an inner dimension, and in which every constant index is
\* smaller than the length of the array dimension it indexes, gets no
\* diagnostic.
C3_NoFalsePositive ==
  \A k \in 1..Len(log) :
    LET G == LogGEP(k) IN
    (getNumIndices(G) >= 3 /\ InBounds(G)) => log[k].outcome # "violation"

\* C4 (state part): the worklist is analysed front to back in traversal
\* order; at most one diagnostic is ever raised; when the compilation has
\* been aborted the diagnostic is the one of the entry being analysed, that
\* entry is the first one the decision policy flags, and every earlier entry
\* was analysed and passed.
C4_FirstViolationState ==
  /\ Len(diag) <= 1
  /\ (Len(diag) = 1) <=> (pc = "aborted")
  /\ \A k \in 1..Len(log) : log[k].at = WorkList[k]
  /\ \A j, k \in 1..Len(log) : j < k => PosLess(log[j].at, log[k].at)
  /\ \A k \in 1..Len(log) :
       /\ (log[k].outcome = "violation") <=> Flagged(log[k])
       /\ k < Len(log) => log[k].outcome = "pass"
  /\ pc = "analyze" => Len(log) = it - 1
  /\ pc = "aborted" =>
       /\ Len(log) = it
       /\ log[it].outcome = "violation"
       /\ diag[1].at = WorkList[it]
       /\ \A j \in 1..(it - 1) : ~Flagged(log[j])

\* C4: halt at first violation: the state part above holds throughout, and
\* the aborted state is absorbing: no step (no further worklist entry, no
\* further function) is ever taken from it.
C4_HaltAtFirstViolation ==
  [](C4_FirstViolationState) /\ [][pc # "aborted"]_vars

\* An aborted run that passed an entry before the violation and left a
\* violating entry behind it unanalysed.
C4_Witness ==
  /\ pc = "aborted"
  /\ it > 1
  /\ \E j \in (it + 1)..Len(WorkList) : InstrAt(F, WorkList[j]) = GepViol

\* C5: over any sequence of invocations by one pass instance, on functions
\* of one or several modules in any order, the "__assert" declaration is
\* created at most once in each module.
C5_DeclaredOncePerUnit == \A m \in Modules : decls[m] <= 1

\* C6: while runOnFunction analyses a function its body stays what it was
\* on entry, and when it returns the body is still the entry body and the
\* value returned is false.
C6_NoMutation ==
  [][/\ pc' \in {"analyze", "aborted", "crashed"} => F' = entryF'
     /\ (pc = "analyze" /\ pc' = "idle") => (F = entryF /\ ret' = <<FALSE>>)]_vars

\* An invocation has returned false.
C6_Witness == pc = "idle" /\ ret = <<FALSE>> /\ Len(diag) = 0

\* C7: an invocation either processes every worklist entry and returns, or
\* aborts through the fatal diagnostic; it never ends any other way.
C7_CompletesOrAborts == pc \in {"idle", "analyze", "aborted"}

\* C8: whenever the diagnostic is raised (for a GEP with at least one
\* index), its GEP has an array base of known length and constant indices,
\* the final index is not below the declared length, and the index and
\* length printed in the message are exactly the final index operand's
\* value and the declared element count.
C8_DiagnosticContent ==
  \A n \in 1..Len(diag) :
    LET G == InstrAt(F, diag[n].at) IN
    getNumIndices(G) >= 1 =>
      /\ IsArrayBase(G)
      /\ hasAllConstantIndices(G)
      /\ U64Geq(FinalIndex(G), DeclaredLength(G))
      /\ ~diag[n].msg.index.neg /\ ~diag[n].msg.length.neg
      /\ Printed(diag[n].msg.index) = FinalIndex(G)
      /\ Printed(diag[n].msg.length) = DeclaredLength(G)

\* C9 (state part): once collected, the worklist holds GEPs of the function
\* only, every GEP of the function exactly once, in block order and then in
\* order within the block.
C9_WorkListState ==
  pc # "idle" =>
    /\ \A k \in 1..Len(WorkList) :
         WorkList[k] \in Positions(F) /\ isGEP(InstrAt(F, WorkList[k]))
    /\ \A p \in Positions(F) :
         isGEP(InstrAt(F, p)) =>
           Cardinality({k \in 1..Len(WorkList) : WorkList[k] = p}) = 1
    /\ \A j, k \in 1..Len(WorkList) :
         j < k => PosLess(WorkList[j], WorkList[k])

\* C9: collector contract: the state part above, and the worklist is left
\* as it is by every step of the analysis phase.
C9_CollectorContract ==
  [](C9_WorkListState)
    /\ [][(pc = "analyze" /\ pc' # "idle") => WorkList' = WorkList]_vars

\* A worklist of several GEPs from several blocks of a function that also
\* holds another instruction, partly consumed.
C9_Witness ==
  /\ pc = "analyze"
  /\ it > 1
  /\ Len(F.blocks) >= 2
  /\ Len(WorkList) >= 2
  /\ WorkList[1][1] # WorkList[2][1]
  /\ \E p \in Positions(F) : ~isGEP(InstrAt(F, p))

\* C10: for a GEP with at least one index, arrayLength is held as known
\* exactly when the base is a pointer to a fixed-size array, desiredIndex
\* exactly when all indices are constants, and a known value is the IR's.
C10_KnownByRecovery ==
  \A k \in 1..Len(log) :
    LET G == LogGEP(k) IN
    getNumIndices(G) >= 1 =>
      /\ (log[k].arrayLength >= 0) <=> IsArrayBase(G)
      /\ (log[k].desiredIndex >= 0) <=> hasAllConstantIndices(G)
      /\ IsArrayBase(G) => FromInt(log[k].arrayLength) = DeclaredLength(G)
      /\ hasAllConstantIndices(G) =>
           FromInt(log[k].desiredIndex) = FinalIndex(G)

=============================================================================
